---- MODULE Spec2Model ----
(***************************************************************************)
(* EntityDatabase (runrightfast-elasticsearch): a promise-returning data   *)
(* access layer over an Elasticsearch document store.                      *)
(*                                                                         *)
(* Callers invoke operations on one EntityDatabase handle.  An operation   *)
(* either settles its promise synchronously (validation) or hands one      *)
(* request to the elastic.js client.  The store answers requests one at a  *)
(* time, in any order; the answer is later delivered to the callback the   *)
(* operation registered, which settles the promise.                        *)
(*                                                                         *)
(* JavaScript values are written as strings of their literal form where a  *)
(* field can hold values of several types ("undefined", "true", "409").    *)
(* An optional number is a sequence of length 0 or 1.                      *)
(***************************************************************************)
EXTENDS Integers, Sequences, FiniteSets, TLC

VARIABLES self, store, searchable, call, uuidCount

vars == <<self, store, searchable, call, uuidCount>>

----------------------------------------------------------------------------
(* Bounds *)

MaxVersion == 2
MaxUuid == 2

----------------------------------------------------------------------------
(* Values *)

Callers == {"c1", "c2"}

UNDEFINED == "undefined"
INVALID_OBJ_SCHEMA == "INVALID_OBJ_SCHEMA"
NOT_FOUND == "404"
CONFLICT == "409"
UNAVAILABLE == "503"

(* lodash type tests over the values the calls are given: undefined, the   *)
(* booleans "true" and "false", the number "1"; anything else is a string  *)
(* (the string 'true' is written "'true'")                                 *)
isUndefined(x) == x = UNDEFINED
isBooleanOrString(x) == x # UNDEFINED
isBoolean(x) == x \in {"true", "false"}
isString(x) == x \notin {UNDEFINED, "1", "true", "false"}

toLowerCaseSkipped(s) == s

toLowerCase(s) ==
    CASE s = "EntityDatabaseSpec" -> "entitydatabasespec"
      [] s = "EntityDatabaseTestDoc" -> "entitydatabasetestdoc"
      [] OTHER -> s

EntityType == "widget"

InitialVersion == 1

Ids == {"a", "b"}
uuid(n) == "u" \o ToString(n)
DocIds == Ids \cup {uuid(n) : n \in 1..MaxUuid}

----------------------------------------------------------------------------
(* Entities: the candidate objects callers pass, and the injected          *)
(* constructor                                                             *)

NotAnObject == [isObject |-> FALSE, id |-> UNDEFINED, _entityType |-> UNDEFINED,
                valid |-> FALSE, data |-> UNDEFINED, updatedBy |-> UNDEFINED,
                updatedOn |-> 0]

Candidate(id, et, valid, data) ==
    [isObject |-> TRUE, id |-> id, _entityType |-> et, valid |-> valid,
     data |-> data, updatedBy |-> UNDEFINED, updatedOn |-> 0]

EntityThrows(e) == ~e.valid

Entity(e, n) ==
    [e EXCEPT !.id = IF isUndefined(e.id) THEN uuid(n) ELSE e.id]

updated(e, updatedBy) == [e EXCEPT !.updatedBy = updatedBy]

NeedsUuid(e) == e.isObject /\ e.valid /\ isUndefined(e.id)

----------------------------------------------------------------------------
(* Requests handed to the elastic.js client, and the store's answers       *)

(* A bound of a range: none, a timestamp (a Date object) or a number *)
NoBound == [defined |-> FALSE, isObject |-> FALSE, at |-> 0]

Timestamp(n) == [defined |-> TRUE, isObject |-> TRUE, at |-> n]

NumberBound(n) == [defined |-> TRUE, isObject |-> FALSE, at |-> n]

(* The filter of a search request *)
NoFilter ==
    [kind |-> "none", field |-> UNDEFINED, value |-> UNDEFINED,
     from |-> NoBound, to |-> NoBound,
     includeLower |-> UNDEFINED, includeUpper |-> UNDEFINED]

(* The settings of a search request; an unset setting is UNDEFINED, an     *)
(* unset number the empty sequence                                         *)
NoSearch ==
    [query |-> UNDEFINED, filter |-> NoFilter,
     sortField |-> UNDEFINED, sortOrder |-> UNDEFINED,
     timeout |-> <<>>, fields |-> UNDEFINED, version |-> UNDEFINED,
     from |-> <<>>, size |-> <<>>]

NoRequest ==
    [api |-> "none", index |-> UNDEFINED, type |-> UNDEFINED, id |-> UNDEFINED,
     opType |-> UNDEFINED, version |-> <<>>, refresh |-> FALSE,
     source |-> NotAnObject, payload |-> <<>>, successcb |-> "none",
     op |-> "none", ids |-> <<>>, search |-> NoSearch]

NoResult ==
    [kind |-> "none", ok |-> FALSE, exists |-> UNDEFINED, found |-> UNDEFINED,
     _index |-> UNDEFINED, _type |-> UNDEFINED, _id |-> UNDEFINED,
     _version |-> 0, _source |-> NotAnObject,
     error |-> UNDEFINED, status |-> UNDEFINED, code |-> UNDEFINED,
     items |-> <<>>, docs |-> <<>>, total |-> 0, hits |-> <<>>]

NoError == [message |-> UNDEFINED, code |-> UNDEFINED, info |-> NoResult]

Error(message) == [NoError EXCEPT !.message = message]

(* A stored document; via names the operation whose write stored it *)
Absent == [exists |-> FALSE, version |-> 0, source |-> NotAnObject, via |-> "none"]

ErrorResult(message, status) ==
    [NoResult EXCEPT !.kind = "error", !.error = message, !.status = status]

(* What an operation does before it returns its promise: settle it, hand a *)
(* request to the client, or both.                                         *)
Effect(settle, value, error, req) ==
    [settle |-> settle, value |-> value, error |-> error, req |-> req]

Resolve(value) == Effect("resolved", value, NoError, NoRequest)
Reject(error) == Effect("rejected", NoResult, error, NoRequest)
Send(req) == Effect("none", NoResult, NoError, req)

----------------------------------------------------------------------------
(* lib/entity-database.js *)

EntityDatabase(options) ==
    [Entity |-> options.entityConstructor,
     ejs |-> options.ejs,
     index |-> toLowerCase(options.index),
     type |-> IF isUndefined(options.type) THEN UNDEFINED ELSE toLowerCase(options.type)]

SchemaError(err) == [err EXCEPT !.code = INVALID_OBJ_SCHEMA]

EntityError == Error("entity failed validation")

createOpTypeUnset == UNDEFINED

createOpType == "create"

createEntity(entity, refresh, n) ==
    IF ~entity.isObject THEN Reject(Error("entity is required"))
    ELSE IF ~isUndefined(refresh) /\ ~isBoolean(refresh)
    THEN Reject(Error("refresh must be a Boolean"))
    ELSE IF EntityThrows(entity) THEN Reject(SchemaError(EntityError))
    ELSE LET newEntity == Entity(entity, n)
         IN  Send([NoRequest EXCEPT !.api = "index", !.index = self.index,
                     !.type = self.type, !.id = newEntity.id,
                     !.opType = createOpType, !.refresh = (refresh = "true"),
                     !.source = newEntity, !.op = "createEntity",
                     !.successcb = "checkElasticsearchResult"])

getEntity(id) ==
    IF ~isString(id) THEN Reject(Error("id is required and must be a String"))
    ELSE Send([NoRequest EXCEPT !.api = "get", !.index = self.index,
                 !.type = self.type, !.id = id, !.op = "getEntity",
                 !.successcb = "getEntity"])

(* joi.validate(params, updateEntityParamsSchema): TRUE when it reports an *)
(* error                                                                   *)
updateEntityParamsInvalid(params) ==
    \/ ~params.defined
    \/ ~params.entity.isObject
    \/ params.version # <<>> /\ params.version[1] < 1

docVersionDropped(params) == <<>>

docVersionDefaulted(params) ==
    IF params.version # <<>> THEN params.version ELSE <<InitialVersion>>

docVersion(params) ==
    IF params.version # <<>> /\ params.version[1] # 0 THEN params.version ELSE <<>>

setEntity(params, n) ==
    IF updateEntityParamsInvalid(params) THEN Reject(Error("validation failed"))
    ELSE IF EntityThrows(params.entity) THEN Reject(SchemaError(EntityError))
    ELSE LET newEntity == updated(Entity(params.entity, n), params.updatedBy)
             type == IF isUndefined(newEntity._entityType) THEN self.type
                     ELSE newEntity._entityType
         IN  Send([NoRequest EXCEPT !.api = "index", !.index = self.index,
                     !.type = type, !.id = newEntity.id,
                     !.version = docVersion(params), !.source = newEntity,
                     !.op = "setEntity", !.successcb = "checkElasticsearchResult"])

deleteEntityWithoutRefresh(id, refresh) ==
    IF ~isString(id) THEN Reject(Error("id is required and must be a String"))
    ELSE IF ~isUndefined(refresh) /\ ~isBoolean(refresh)
    THEN Reject(Error("refresh must be a Boolean"))
    ELSE Send([NoRequest EXCEPT !.api = "delete", !.index = self.index,
                 !.type = self.type, !.id = id, !.refresh = FALSE,
                 !.op = "deleteEntity", !.successcb = "resolve"])

deleteEntity(id, refresh) ==
    IF ~isString(id) THEN Reject(Error("id is required and must be a String"))
    ELSE IF ~isUndefined(refresh) /\ ~isBoolean(refresh)
    THEN Reject(Error("refresh must be a Boolean"))
    ELSE Send([NoRequest EXCEPT !.api = "delete", !.index = self.index,
                 !.type = self.type, !.id = id, !.refresh = (refresh = "true"),
                 !.op = "deleteEntity", !.successcb = "resolve"])

LineWithoutId(kind, type, id, source) ==
    [line |-> kind, _index |-> self.index, _type |-> type, _id |-> UNDEFINED,
     source |-> source]

(* One line of a bulk payload: an action header or an entity body *)
Line(kind, type, id, source) ==
    [line |-> kind, _index |-> self.index, _type |-> type, _id |-> id,
     source |-> source]

RECURSIVE createEntitiesPayload(_, _)
createEntitiesPayload(entities, n) ==
    IF entities = <<>> THEN <<>>
    ELSE LET entity == Head(entities)
             newEntity == Entity(entity, n)
         IN  <<Line("index", self.type, entity.id, NotAnObject),
               Line("source", UNDEFINED, UNDEFINED, newEntity)>>
                 \o createEntitiesPayload(Tail(entities),
                                          IF NeedsUuid(entity) THEN n + 1 ELSE n)

createEntities(entities, n) ==
    IF ~entities.isArray THEN Reject(Error("entities is required to be an Array"))
    ELSE IF Len(entities.items) = 0 THEN Resolve(NoResult)
    ELSE IF \E i \in 1..Len(entities.items) : EntityThrows(entities.items[i])
    THEN Reject(EntityError)
    ELSE Send([NoRequest EXCEPT !.api = "bulk", !.index = self.index,
                 !.type = self.type,
                 !.payload = createEntitiesPayload(entities.items, n),
                 !.op = "createEntities", !.successcb = "resolve"])

(* The ids argument of getEntities and deleteEntities: nothing, a value    *)
(* that is not an array, or an array                                       *)
NoIds == [defined |-> FALSE, isArray |-> FALSE, items |-> <<>>]

NotAnIdsArray == [defined |-> TRUE, isArray |-> FALSE, items |-> <<>>]

IdsArray(items) == [defined |-> TRUE, isArray |-> TRUE, items |-> items]

IdsError == Error("ids must be an Array of Strings")

validateIdsArrayFirstOnly(ids) ==
    \/ ~ids.defined
    \/ ~ids.isArray
    \/ Len(ids.items) > 0 /\ ~isString(ids.items[1])

(* validateIdsArray(ids): TRUE when it throws *)
validateIdsArrayThrows(ids) ==
    \/ ~ids.defined
    \/ ~ids.isArray
    \/ \E i \in 1..Len(ids.items) : ~isString(ids.items[i])

getEntitiesFirstIdOnly(ids) ==
    IF validateIdsArrayThrows(ids) THEN Reject(IdsError)
    ELSE Send([NoRequest EXCEPT !.api = "mget", !.index = self.index,
                 !.type = self.type,
                 !.ids = IF ids.items = <<>> THEN <<>> ELSE <<Head(ids.items)>>,
                 !.op = "getEntities", !.successcb = "resolve"])

getEntities(ids) ==
    IF validateIdsArrayThrows(ids) THEN Reject(IdsError)
    ELSE Send([NoRequest EXCEPT !.api = "mget", !.index = self.index,
                 !.type = self.type, !.ids = ids.items, !.op = "getEntities",
                 !.successcb = "resolve"])

RECURSIVE deleteEntitiesPayload(_)
deleteEntitiesPayload(ids) ==
    IF ids = <<>> THEN <<>>
    ELSE <<Line("delete", self.type, Head(ids), NotAnObject)>>
             \o deleteEntitiesPayload(Tail(ids))

noIdsNeverEmpty(ids) == FALSE

noIds(ids) == Len(ids.items) = 0

deleteEntities(ids) ==
    IF ~ids.isArray THEN Reject(Error("ids is required to be an Array"))
    ELSE IF noIds(ids) THEN Resolve(NoResult)
    ELSE IF validateIdsArrayThrows(ids) THEN Reject(IdsError)
    ELSE Send([NoRequest EXCEPT !.api = "bulk", !.index = self.index,
                 !.type = self.type,
                 !.payload = deleteEntitiesPayload(ids.items),
                 !.op = "deleteEntities", !.successcb = "resolve"])

(* The params of findByField *)
NoRange ==
    [defined |-> FALSE, from |-> NoBound, to |-> NoBound,
     includeLower |-> UNDEFINED, includeUpper |-> UNDEFINED]

NoSort == [defined |-> FALSE, field |-> UNDEFINED, descending |-> UNDEFINED]

NoSearchParams ==
    [defined |-> FALSE, field |-> UNDEFINED, value |-> UNDEFINED,
     range |-> NoRange, sort |-> NoSort, from |-> <<>>, pageSize |-> <<>>,
     timeout |-> <<>>, returnFields |-> UNDEFINED, version |-> UNDEFINED]

getSortOrder(descending) == IF descending = "true" THEN "desc" ELSE "asc"

(* the request settings findAllParamsSchema and findByFieldParamsSchema    *)
(* have in common: TRUE when joi.validate reports an error                 *)
requestSettingsInvalid(params) ==
    \/ ~isUndefined(params.version) /\ ~isBoolean(params.version)
    \/ /\ params.sort.defined
       /\ \/ ~isString(params.sort.field)
          \/ ~isUndefined(params.sort.descending) /\ ~isBoolean(params.sort.descending)

findByFieldParamsInvalidBothAllowed(params) ==
    \/ ~params.defined
    \/ requestSettingsInvalid(params)
    \/ ~isString(params.field)
    \/ /\ params.range.defined
       /\ \/ params.range.from.defined /\ ~params.range.from.isObject
          \/ params.range.to.defined /\ ~params.range.to.isObject
          \/ ~isUndefined(params.range.includeLower)
                /\ ~isBoolean(params.range.includeLower)
          \/ ~isUndefined(params.range.includeUpper)
                /\ ~isBoolean(params.range.includeUpper)

(* joi.validate(params, findByFieldParamsSchema): TRUE when it reports an  *)
(* error                                                                   *)
findByFieldParamsInvalid(params) ==
    \/ ~params.defined
    \/ requestSettingsInvalid(params)
    \/ ~isString(params.field)
    \/ /\ params.range.defined
       /\ \/ params.range.from.defined /\ ~params.range.from.isObject
          \/ params.range.to.defined /\ ~params.range.to.isObject
          \/ ~isUndefined(params.range.includeLower)
                /\ ~isBoolean(params.range.includeLower)
          \/ ~isUndefined(params.range.includeUpper)
                /\ ~isBoolean(params.range.includeUpper)
    \/ params.range.defined /\ ~isUndefined(params.value)

(* the settings newSearchRequest puts on the request once the params have  *)
(* passed validation                                                       *)
newSearchRequest(searchParams) ==
    [NoSearch EXCEPT
        !.sortField = IF searchParams.sort.defined THEN searchParams.sort.field
                      ELSE UNDEFINED,
        !.sortOrder = IF searchParams.sort.defined
                      THEN getSortOrder(searchParams.sort.descending)
                      ELSE UNDEFINED,
        !.timeout = searchParams.timeout,
        !.fields = searchParams.returnFields,
        !.version = searchParams.version,
        !.from = searchParams.from,
        !.size = searchParams.pageSize]

TermFilter(field, value) ==
    [NoFilter EXCEPT !.kind = "term", !.field = field, !.value = value]

newRangeFilterExclusive(params) ==
    [NoFilter EXCEPT !.kind = "range", !.field = params.field,
        !.from = params.range.from, !.to = params.range.to,
        !.includeLower = IF isUndefined(params.range.includeLower) THEN "false"
                         ELSE params.range.includeLower,
        !.includeUpper = params.range.includeUpper]

newRangeFilter(params) ==
    [NoFilter EXCEPT !.kind = "range", !.field = params.field,
        !.from = params.range.from, !.to = params.range.to,
        !.includeLower = params.range.includeLower,
        !.includeUpper = params.range.includeUpper]

findByFieldTruthyValue(params) ==
    IF findByFieldParamsInvalid(params) THEN Reject(Error("validation failed"))
    ELSE LET request == newSearchRequest(params)
             filter == IF params.value \notin {UNDEFINED, "false"}
                       THEN TermFilter(params.field, params.value)
                       ELSE newRangeFilter(params)
         IN  Send([NoRequest EXCEPT !.api = "search", !.index = self.index,
                     !.type = self.type,
                     !.search = [request EXCEPT !.filter = filter],
                     !.op = "findByField",
                     !.successcb = "checkElasticsearchResult"])

findByField(params) ==
    IF findByFieldParamsInvalid(params) THEN Reject(Error("validation failed"))
    ELSE LET request == newSearchRequest(params)
             filter == IF ~isUndefined(params.value)
                       THEN TermFilter(params.field, params.value)
                       ELSE newRangeFilter(params)
         IN  Send([NoRequest EXCEPT !.api = "search", !.index = self.index,
                     !.type = self.type,
                     !.search = [request EXCEPT !.filter = filter],
                     !.op = "findByField",
                     !.successcb = "checkElasticsearchResult"])

(* findAllParamsSchema holds the request settings only *)
findAllParamsInvalid(searchParams) == requestSettingsInvalid(searchParams)

(* whether the caller's params carry the key k *)
Supplied(params, k) ==
    /\ params.defined
    /\ CASE k = "defined" -> FALSE
         [] k \in {"sort", "range"} -> params[k].defined
         [] k \in {"from", "pageSize", "timeout"} -> params[k] # <<>>
         [] OTHER -> params[k] # UNDEFINED

extendNothing(target, params) == target

(* extend(target, params): every key of params replaces that key of target *)
extend(target, params) ==
    [k \in DOMAIN target |-> IF Supplied(params, k) THEN params[k] ELSE target[k]]

findAllDefaults ==
    [NoSearchParams EXCEPT
        !.defined = TRUE,
        !.sort = [defined |-> TRUE, field |-> "updatedOn", descending |-> "true"]]

findAll(params) ==
    LET searchParams == extend(findAllDefaults, params)
    IN  IF findAllParamsInvalid(searchParams) THEN Reject(Error("validation failed"))
        ELSE LET request == newSearchRequest(searchParams)
             IN  Send([NoRequest EXCEPT !.api = "search", !.index = self.index,
                         !.type = self.type,
                         !.search = [request EXCEPT !.query = "match_all"],
                         !.op = "findAll",
                         !.successcb = "checkElasticsearchResult"])

refreshIndex ==
    Send([NoRequest EXCEPT !.api = "refresh", !.index = self.index,
             !.op = "refreshIndex", !.successcb = "resolve"])

----------------------------------------------------------------------------
(* The earlier revision of entity-database.js (type optional, entities     *)
(* routed by _entityType)                                                  *)

createEntityPart001(entity, n) ==
    IF ~entity.isObject THEN Reject(Error("entity is required"))
    ELSE IF EntityThrows(entity) THEN Reject(SchemaError(EntityError))
    ELSE LET newEntity == Entity(entity, n)
             type == IF isUndefined(newEntity._entityType) THEN self.type
                     ELSE newEntity._entityType
             req == [NoRequest EXCEPT !.api = "index", !.index = self.index,
                       !.type = type, !.id = newEntity.id,
                       !.opType = "create", !.source = newEntity,
                       !.op = "createEntity",
                       !.successcb = "checkElasticsearchResult"]
         IN  IF isUndefined(type)
             THEN Effect("rejected", NoResult, Error("type is required"), req)
             ELSE Send(req)

getEntityPart001(id, type) ==
    IF ~isString(id) THEN Reject(Error("id is required and must be a String"))
    ELSE Send([NoRequest EXCEPT !.api = "get", !.index = self.index,
                 !.type = IF isUndefined(type) THEN self.type ELSE type,
                 !.id = id, !.op = "getEntity", !.successcb = "getEntity"])

----------------------------------------------------------------------------
(* The success callbacks the operations register with the client *)

checkElasticsearchResultSkipped(result) == Resolve(result)

checkElasticsearchResult(result) ==
    IF ~isUndefined(result.error)
    THEN Reject([Error(result.error) EXCEPT !.code = result.status])
    ELSE Resolve(result)

getEntityCallbackInverted(result) ==
    IF result.exists = "true"
    THEN Reject([Error("Entity does not exist") EXCEPT !.code = NOT_FOUND, !.info = result])
    ELSE Resolve(result)

getEntityCallbackNoExistsCheck(result) ==
    IF result.exists = "true" THEN Resolve(result)
    ELSE IF ~isUndefined(result.error)
    THEN Reject([Error(result.error) EXCEPT !.code = result.code])
    ELSE Resolve(result)

getEntityCallback(result) ==
    IF result.exists = "true" THEN Resolve(result)
    ELSE IF isBoolean(result.exists)
    THEN Reject([Error("Entity does not exist") EXCEPT !.code = NOT_FOUND, !.info = result])
    ELSE IF ~isUndefined(result.error)
    THEN Reject([Error(result.error) EXCEPT !.code = result.code])
    ELSE Resolve(result)

successcbBlanketError(name, result) ==
    CASE name = "checkElasticsearchResult" -> checkElasticsearchResult(result)
      [] name = "getEntity" -> getEntityCallback(result)
      [] OTHER -> IF \E i \in 1..Len(result.items) : ~result.items[i].ok
                  THEN Reject(Error("bulk items failed"))
                  ELSE Resolve(result)

successcb(name, result) ==
    CASE name = "checkElasticsearchResult" -> checkElasticsearchResult(result)
      [] name = "getEntity" -> getEntityCallback(result)
      [] OTHER -> Resolve(result)

----------------------------------------------------------------------------
(* The document store, as the operations' documentation and tests describe *)
(* its answers                                                             *)

StoreTypes == {"entitydatabasetestdoc", EntityType, UNDEFINED}

Answer(result, doc) == [result |-> result, doc |-> doc]

Ack(req, version) ==
    [NoResult EXCEPT !.kind = "ack", !.ok = TRUE, !._index = req.index,
                     !._type = req.type, !._id = req.id, !._version = version]

IndexAnswer(req, cur) ==
    IF req.opType = "create" /\ cur.exists
    THEN Answer(ErrorResult("DocumentAlreadyExistsException", CONFLICT), cur)
    ELSE IF req.version # <<>> /\ (~cur.exists \/ cur.version # req.version[1])
    THEN Answer(ErrorResult("VersionConflictEngineException", CONFLICT), cur)
    ELSE LET v == IF cur.exists THEN cur.version + 1 ELSE InitialVersion
         IN  Answer(Ack(req, v),
                    [exists |-> TRUE, version |-> v, source |-> req.source,
                     via |-> req.op])

GetAnswer(req, cur) ==
    IF cur.exists
    THEN Answer([NoResult EXCEPT !.kind = "doc", !.exists = "true",
                    !._index = req.index, !._type = req.type, !._id = req.id,
                    !._version = cur.version, !._source = cur.source], cur)
    ELSE Answer([NoResult EXCEPT !.kind = "doc", !.exists = "false",
                    !._index = req.index, !._type = req.type, !._id = req.id], cur)

DeleteAnswer(req, cur) ==
    Answer([Ack(req, cur.version + 1) EXCEPT
               !.found = IF cur.exists THEN "true" ELSE "false"], Absent)

StoreAnswer(req, cur) ==
    CASE req.api = "index" -> IndexAnswer(req, cur)
      [] req.api = "get" -> GetAnswer(req, cur)
      [] req.api = "delete" -> DeleteAnswer(req, cur)

(* _mget: one entry per requested id, in the order of the request *)
MultiGetDoc(req, id, cur) ==
    [_index |-> req.index, _type |-> req.type, _id |-> id,
     exists |-> IF cur.exists THEN "true" ELSE "false",
     _version |-> cur.version, _source |-> cur.source]

MultiGetAnswer(req, st) ==
    [NoResult EXCEPT !.kind = "mget",
        !.docs = [i \in 1..Len(req.ids) |->
                     MultiGetDoc(req, req.ids[i], st[<<req.type, req.ids[i]>>])]]

(* _bulk: the action lines are applied one after the other, each with its  *)
(* own outcome; an index action without _id gets an id from the store.     *)
(* failed holds the positions of the items the store could not apply: such *)
(* an item is reported with an error and leaves its document as it was.    *)
BulkItem(action, id, version, found) ==
    [action |-> action, ok |-> TRUE, _id |-> id, _version |-> version,
     found |-> found, error |-> UNDEFINED]

FailedItem(action, id) ==
    [BulkItem(action, id, 0, UNDEFINED) EXCEPT
        !.ok = FALSE, !.error = "UnavailableShardsException"]

BulkItemLines(line) == IF line.line = "index" THEN 2 ELSE 1

RECURSIVE BulkItemCount(_)
BulkItemCount(lines) ==
    IF lines = <<>> THEN 0
    ELSE 1 + BulkItemCount(SubSeq(lines, BulkItemLines(Head(lines)) + 1, Len(lines)))

AutoIds(lines) ==
    Cardinality({i \in 1..Len(lines) :
                    lines[i].line = "index" /\ isUndefined(lines[i]._id)})

RECURSIVE BulkApply(_, _, _, _, _, _)
BulkApply(lines, op, st, n, items, failed) ==
    IF lines = <<>>
    THEN [result |-> [NoResult EXCEPT !.kind = "bulk", !.ok = TRUE, !.items = items],
          store |-> st, uuids |-> n]
    ELSE LET head == Head(lines)
             rest == SubSeq(lines, BulkItemLines(head) + 1, Len(lines))
             fails == (Len(items) + 1) \in failed
         IN  IF fails
             THEN BulkApply(rest, op, st, n,
                            Append(items, FailedItem(head.line, head._id)), failed)
             ELSE IF head.line = "index"
             THEN LET auto == isUndefined(head._id)
                      id == IF auto THEN uuid(n + 1) ELSE head._id
                      key == <<head._type, id>>
                      v == IF st[key].exists THEN st[key].version + 1
                           ELSE InitialVersion
                      doc == [exists |-> TRUE, version |-> v,
                              source |-> lines[2].source, via |-> op]
                  IN  BulkApply(rest, op, [st EXCEPT ![key] = doc],
                                IF auto THEN n + 1 ELSE n,
                                Append(items, BulkItem("index", id, v, UNDEFINED)),
                                failed)
             ELSE LET key == <<head._type, head._id>>
                  IN  BulkApply(rest, op, [st EXCEPT ![key] = Absent], n,
                                Append(items,
                                       BulkItem("delete", head._id, st[key].version + 1,
                                                IF st[key].exists THEN "true"
                                                ELSE "false")),
                                failed)

(* _search: the hits are the visible documents of the request's type that  *)
(* pass the filter, in the order of the sort, from the offset and as many  *)
(* as the size.  The store leaves the order among documents with equal     *)
(* sort values, and all order without a sort, open: order is the one it    *)
(* takes for this answer.                                                  *)
DefaultSize == 10

FieldOf(source, field) ==
    CASE field = "updatedOn" -> source.updatedOn
      [] field = "name" -> source.data
      [] field = "id" -> source.id
      [] OTHER -> UNDEFINED

Inclusive(flag) == flag # "false"

Matches(filter, source) ==
    CASE filter.kind = "term" ->
            IF filter.field = "updatedOn"
            THEN ToString(source.updatedOn) = filter.value
            ELSE FieldOf(source, filter.field) = filter.value
      [] filter.kind = "range" ->
            IF filter.field # "updatedOn"
            THEN ~filter.from.defined /\ ~filter.to.defined
            ELSE LET v == source.updatedOn
                 IN  /\ filter.from.defined =>
                            IF Inclusive(filter.includeLower) THEN v >= filter.from.at
                            ELSE v > filter.from.at
                     /\ filter.to.defined =>
                            IF Inclusive(filter.includeUpper) THEN v <= filter.to.at
                            ELSE v < filter.to.at
      [] OTHER -> TRUE

Matching(req, view) ==
    {id \in DocIds : /\ view[<<req.type, id>>].exists
                     /\ Matches(req.search.filter, view[<<req.type, id>>].source)}

SortKey(req, view, id) ==
    IF req.search.sortField = "updatedOn"
    THEN view[<<req.type, id>>].source.updatedOn
    ELSE 0

Orders(req, view) ==
    LET ids == Matching(req, view)
        n == Cardinality(ids)
    IN  {o \in [1..n -> ids] :
            /\ \A i, j \in 1..n : i # j => o[i] # o[j]
            /\ \A i, j \in 1..n :
                  i < j => CASE req.search.sortOrder = "desc" ->
                                   SortKey(req, view, o[i]) >= SortKey(req, view, o[j])
                             [] req.search.sortOrder = "asc" ->
                                   SortKey(req, view, o[i]) <= SortKey(req, view, o[j])
                             [] OTHER -> TRUE}

Page(order, from, size) ==
    LET first == IF from = <<>> THEN 1 ELSE from[1] + 1
        count == IF size = <<>> THEN DefaultSize ELSE size[1]
        last == IF first + count - 1 < Len(order) THEN first + count - 1
                ELSE Len(order)
    IN  SubSeq(order, first, last)

Hit(req, id, doc) ==
    [_index |-> req.index, _type |-> req.type, _id |-> id, _source |-> doc.source]

SearchAnswer(req, view, order) ==
    LET page == Page(order, req.search.from, req.search.size)
    IN  [NoResult EXCEPT
            !.kind = "hits", !.total = Len(order),
            !.hits = [i \in 1..Len(page) |->
                         Hit(req, page[i], view[<<req.type, page[i]>>])]]

(* the documents of one type, in a fixed order of their ids *)
DocIdSeq == <<"a", "b">> \o [n \in 1..MaxUuid |-> uuid(n)]

View(type, view) == [i \in 1..Len(DocIdSeq) |-> view[<<type, DocIdSeq[i]>>]]

(* Searches see the documents as of the last refresh of their shard *)
Shards(key) == {{key}, StoreTypes \X DocIds}

Refreshed(shard, st) ==
    [key \in StoreTypes \X DocIds |->
        IF key \in shard THEN st[key] ELSE searchable[key]]

(* An answer that reports a failure of the store itself *)
FaultResult == ErrorResult("NoShardAvailableActionException", UNAVAILABLE)

----------------------------------------------------------------------------
(* Calls: one record per caller, from the call until the caller has seen   *)
(* the promise settle                                                      *)

NoParams == [defined |-> FALSE, entity |-> NotAnObject, version |-> <<>>,
             updatedBy |-> UNDEFINED]

NotAnArray == [isArray |-> FALSE, items |-> <<>>]

Array(items) == [isArray |-> TRUE, items |-> items]

NoArgs == [entity |-> NotAnObject, refresh |-> UNDEFINED, id |-> UNDEFINED,
           type |-> UNDEFINED, params |-> NoParams, entities |-> NotAnArray,
           ids |-> NoIds, search |-> NoSearchParams]

Idle ==
    [op |-> "none", args |-> NoArgs, status |-> "idle", value |-> NoResult,
     error |-> NoError, req |-> NoRequest, resp |-> NoResult, nreq |-> 0,
     phase |-> "none", pre |-> Absent, post |-> Absent, peers |-> {},
     seen |-> <<>>, after |-> {}]

SettleLastWins(r, eff) ==
    IF eff.settle # "none"
    THEN [r EXCEPT !.status = eff.settle, !.value = eff.value, !.error = eff.error]
    ELSE r

(* when.promise: the first resolve or reject settles, later ones are ignored *)
Settle(r, eff) ==
    IF r.status = "pending" /\ eff.settle # "none"
    THEN [r EXCEPT !.status = eff.settle, !.value = eff.value, !.error = eff.error]
    ELSE r

(* A call: the operation runs up to the return of its promise.  peers are *)
(* the callers whose request the store had not yet answered at that time;  *)
(* after, kept for searches, are the callers whose request the store had   *)
(* answered and who have not called again since.                           *)
Begin(c, op, args, eff) ==
    call' = [d \in Callers |->
        IF d = c
        THEN Settle([Idle EXCEPT !.op = op, !.args = args, !.status = "pending",
                        !.req = eff.req,
                        !.nreq = IF eff.req.api = "none" THEN 0 ELSE 1,
                        !.phase = IF eff.req.api = "none" THEN "none"
                                  ELSE "requested",
                        !.peers = IF eff.req.api = "none" THEN {}
                                  ELSE {e \in Callers \ {c} :
                                          call[e].phase = "requested"},
                        !.after = IF eff.req.api # "search" THEN {}
                                  ELSE {e \in Callers \ {c} :
                                          call[e].phase \in {"answered", "delivered"}}],
                    eff)
        ELSE [call[d] EXCEPT !.peers = @ \ {c}, !.after = @ \ {c}]]

TakeUuid(e) ==
    IF NeedsUuid(e)
    THEN uuidCount < MaxUuid /\ uuidCount' = uuidCount + 1
    ELSE uuidCount' = uuidCount

Plain(id) == Candidate(id, UNDEFINED, TRUE, "x")
Typed(id) == Candidate(id, EntityType, TRUE, "x")
Invalid(id) == Candidate(id, UNDEFINED, FALSE, "x")

CreateEntityInputs ==
    {<<e, UNDEFINED>> : e \in {Plain("a"), Plain("b"), Invalid("a"), NotAnObject}}
        \cup {<<Plain("a"), "'true'">>}

CallCreateEntity(c) ==
    /\ call[c].status = "idle"
    /\ \E in \in CreateEntityInputs :
          /\ TakeUuid(in[1])
          /\ Begin(c, "createEntity", [NoArgs EXCEPT !.entity = in[1], !.refresh = in[2]],
                   createEntity(in[1], in[2], uuidCount + 1))
    /\ UNCHANGED <<self, store, searchable>>

SetEntityInputs(c) ==
    {NoParams}
        \cup {[NoParams EXCEPT !.defined = TRUE, !.entity = e] :
                 e \in {NotAnObject, Invalid("a"), Plain("a")}}
        \cup {[NoParams EXCEPT !.defined = TRUE,
                               !.entity = Candidate("a", UNDEFINED, TRUE, c),
                               !.version = <<n>>] :
                 n \in 0..MaxVersion}

CallSetEntity(c) ==
    /\ call[c].status = "idle"
    /\ \E params \in SetEntityInputs(c) :
          /\ TakeUuid(params.entity)
          /\ Begin(c, "setEntity", [NoArgs EXCEPT !.params = params],
                   setEntity(params, uuidCount + 1))
    /\ UNCHANGED <<self, store, searchable>>

IdInputs == Ids \cup {UNDEFINED, "1"}

CallGetEntity(c) ==
    /\ call[c].status = "idle"
    /\ \E id \in IdInputs :
          Begin(c, "getEntity", [NoArgs EXCEPT !.id = id], getEntity(id))
    /\ UNCHANGED <<self, store, searchable, uuidCount>>

DeleteEntityInputs ==
    {<<id, UNDEFINED>> : id \in {"a", UNDEFINED, "1"}}
        \cup {<<"a", "'true'">>}

CallDeleteEntity(c) ==
    /\ call[c].status = "idle"
    /\ \E in \in DeleteEntityInputs :
          Begin(c, "deleteEntity", [NoArgs EXCEPT !.id = in[1], !.refresh = in[2]],
                deleteEntity(in[1], in[2]))
    /\ UNCHANGED <<self, store, searchable, uuidCount>>

(* The store takes one request and answers it.  A write asked to refresh   *)
(* makes the shard of its document visible to searches: that document, or  *)
(* every document when all are on that shard.                              *)
StoreAnswers(c) ==
    /\ call[c].phase = "requested"
    /\ call[c].req.api \in {"index", "get", "delete"}
    /\ LET req == call[c].req
           key == <<req.type, req.id>>
           ans == StoreAnswer(req, store[key])
       IN  /\ ans.doc.version <= MaxVersion
           /\ store' = [store EXCEPT ![key] = ans.doc]
           /\ IF req.refresh /\ req.api # "get"
              THEN \E shard \in Shards(key) : searchable' = Refreshed(shard, store')
              ELSE searchable' = searchable
           /\ call' = [call EXCEPT ![c].phase = "answered",
                                   ![c].resp = ans.result,
                                   ![c].pre = store[key],
                                   ![c].post = ans.doc]
    /\ UNCHANGED <<self, uuidCount>>

StoreAnswersBulk(c) ==
    /\ call[c].phase = "requested"
    /\ call[c].req.api = "bulk"
    /\ uuidCount + AutoIds(call[c].req.payload) <= MaxUuid
    /\ \E failed \in SUBSET (1..BulkItemCount(call[c].req.payload)) :
          LET ans == BulkApply(call[c].req.payload, call[c].req.op, store,
                               uuidCount, <<>>, failed)
          IN  /\ \A key \in DOMAIN store : ans.store[key].version <= MaxVersion
              /\ store' = ans.store
              /\ uuidCount' = ans.uuids
              /\ call' = [call EXCEPT ![c].phase = "answered", ![c].resp = ans.result]
    /\ UNCHANGED <<self, searchable>>

(* seen: the documents of the requested ids as they were when the store    *)
(* answered                                                                *)
StoreAnswersMultiGet(c) ==
    /\ call[c].phase = "requested"
    /\ call[c].req.api = "mget"
    /\ LET req == call[c].req
       IN  call' = [call EXCEPT ![c].phase = "answered",
                       ![c].resp = MultiGetAnswer(req, store),
                       ![c].seen = [i \in 1..Len(req.ids) |->
                                       store[<<req.type, req.ids[i]>>]]]
    /\ UNCHANGED <<self, store, searchable, uuidCount>>

StoreFaults(c) ==
    /\ call[c].phase = "requested"
    /\ call' = [call EXCEPT ![c].phase = "answered", ![c].resp = FaultResult]
    /\ UNCHANGED <<self, store, searchable, uuidCount>>

DeliverRetriesConflict(c) ==
    /\ call[c].phase = "answered"
    /\ call' = [call EXCEPT ![c] =
          IF call[c].resp.status = CONFLICT
          THEN [call[c] EXCEPT !.phase = "requested", !.nreq = @ + 1]
          ELSE [Settle(call[c], successcb(call[c].req.successcb, call[c].resp))
                   EXCEPT !.phase = "delivered"]]
    /\ UNCHANGED <<self, store, searchable, uuidCount>>

(* The client hands the store's answer to the success callback *)
Deliver(c) ==
    /\ call[c].phase = "answered"
    /\ call' = [call EXCEPT ![c] =
          [Settle(call[c], successcb(call[c].req.successcb, call[c].resp))
              EXCEPT !.phase = "delivered"]]
    /\ UNCHANGED <<self, store, searchable, uuidCount>>

(* The client could not reach the store: it calls the error callback, which *)
(* every operation sets to the promise's reject                            *)
TransportError == Error("ECONNREFUSED")

TransportFails(c) ==
    /\ call[c].phase = "requested"
    /\ call' = [call EXCEPT ![c] =
          [Settle(call[c], Reject(TransportError)) EXCEPT !.phase = "failed"]]
    /\ UNCHANGED <<self, store, searchable, uuidCount>>

(* The caller has seen the outcome and is free to call again *)
Return(c) ==
    /\ call[c].status \in {"resolved", "rejected"}
    /\ call[c].phase \in {"none", "delivered", "failed"}
    /\ call' = [call EXCEPT ![c] = Idle]
    /\ UNCHANGED <<self, store, searchable, uuidCount>>

Options ==
    {[ejs |-> "ejs", entityConstructor |-> "Entity",
      index |-> "EntityDatabaseSpec", type |-> "EntityDatabaseTestDoc"],
     [ejs |-> "ejs", entityConstructor |-> "Entity",
      index |-> "entitydatabasespec", type |-> "entitydatabasetestdoc"]}

Init ==
    /\ \E options \in Options : self = EntityDatabase(options)
    /\ store = [key \in StoreTypes \X DocIds |-> Absent]
    /\ searchable = store
    /\ call = [c \in Callers |-> Idle]
    /\ uuidCount = 0

Next ==
    \E c \in Callers :
        \/ CallCreateEntity(c)
        \/ CallSetEntity(c)
        \/ CallGetEntity(c)
        \/ CallDeleteEntity(c)
        \/ StoreAnswers(c)
        \/ StoreFaults(c)
        \/ Deliver(c)
        \/ TransportFails(c)
        \/ Return(c)

Spec == Init /\ [][Next]_vars

----------------------------------------------------------------------------
(* The earlier revision: createEntity and getEntity *)

CreateEntityPart001Inputs ==
    {Plain("a"), Typed("a"), Invalid("a"), NotAnObject,
     Candidate(UNDEFINED, UNDEFINED, TRUE, "x")}

CallCreateEntityPart001(c) ==
    /\ call[c].status = "idle"
    /\ \E entity \in CreateEntityPart001Inputs :
          /\ TakeUuid(entity)
          /\ Begin(c, "createEntity", [NoArgs EXCEPT !.entity = entity],
                   createEntityPart001(entity, uuidCount + 1))
    /\ UNCHANGED <<self, store, searchable>>

CallGetEntityPart001(c) ==
    /\ call[c].status = "idle"
    /\ \E id \in {"a", UNDEFINED}, type \in {UNDEFINED, EntityType} :
          Begin(c, "getEntity", [NoArgs EXCEPT !.id = id, !.type = type],
                getEntityPart001(id, type))
    /\ UNCHANGED <<self, store, searchable, uuidCount>>

OptionsPart001 ==
    {[ejs |-> "ejs", entityConstructor |-> "Entity",
      index |-> "EntityDatabaseSpec", type |-> "EntityDatabaseTestDoc"],
     [ejs |-> "ejs", entityConstructor |-> "Entity",
      index |-> "EntityDatabaseSpec", type |-> UNDEFINED]}

InitPart001 ==
    /\ \E options \in OptionsPart001 : self = EntityDatabase(options)
    /\ store = [key \in StoreTypes \X DocIds |-> Absent]
    /\ searchable = store
    /\ call = [c \in Callers |-> Idle]
    /\ uuidCount = 0

NextPart001 ==
    \E c \in Callers :
        \/ CallCreateEntityPart001(c)
        \/ CallGetEntityPart001(c)
        \/ StoreAnswers(c)
        \/ StoreFaults(c)
        \/ Deliver(c)
        \/ TransportFails(c)
        \/ Return(c)

SpecPart001 == InitPart001 /\ [][NextPart001]_vars

(* The client invokes one of the two callbacks of every request it was     *)
(* handed: the store gets to answer or the transport fails, and an answer  *)
(* is delivered                                                            *)
ClientCallsBack(c) ==
    /\ WF_vars(StoreAnswers(c) \/ StoreFaults(c) \/ TransportFails(c))
    /\ WF_vars(Deliver(c))

CallCreateEntityPart001WithId(c) ==
    /\ call[c].status = "idle"
    /\ \E entity \in {Plain("a"), Invalid("a"), NotAnObject} :
          Begin(c, "createEntity", [NoArgs EXCEPT !.entity = entity],
                createEntityPart001(entity, uuidCount + 1))
    /\ UNCHANGED <<self, store, searchable, uuidCount>>

NextPart001Live ==
    \E c \in Callers :
        \/ CallCreateEntityPart001WithId(c)
        \/ CallGetEntityPart001(c)
        \/ StoreAnswers(c)
        \/ StoreFaults(c)
        \/ Deliver(c)
        \/ TransportFails(c)
        \/ Return(c)

SpecPart001Live ==
    /\ InitPart001
    /\ [][NextPart001Live]_vars
    /\ \A c \in Callers : ClientCallsBack(c)

----------------------------------------------------------------------------
(* Bulk operations *)

CreateEntitiesInputs ==
    {NotAnArray, Array(<<>>), Array(<<Plain("a")>>),
     Array(<<Plain("a"), Plain("b")>>), Array(<<Invalid("a")>>),
     Array(<<Plain("a"), Invalid("b")>>)}

UuidsNeeded(entities) ==
    Cardinality({i \in 1..Len(entities.items) : NeedsUuid(entities.items[i])})

CallCreateEntities(c) ==
    /\ call[c].status = "idle"
    /\ \E entities \in CreateEntitiesInputs :
          /\ uuidCount + UuidsNeeded(entities) <= MaxUuid
          /\ uuidCount' = uuidCount + UuidsNeeded(entities)
          /\ Begin(c, "createEntities", [NoArgs EXCEPT !.entities = entities],
                   createEntities(entities, uuidCount + 1))
    /\ UNCHANGED <<self, store, searchable>>

GetEntitiesInputs ==
    {NoIds, NotAnIdsArray, IdsArray(<<>>), IdsArray(<<"a", "1">>),
     IdsArray(<<"1", "a">>), IdsArray(<<"a", "b">>)}

CallGetEntities(c) ==
    /\ call[c].status = "idle"
    /\ \E ids \in GetEntitiesInputs :
          Begin(c, "getEntities", [NoArgs EXCEPT !.ids = ids], getEntities(ids))
    /\ UNCHANGED <<self, store, searchable, uuidCount>>

DeleteEntitiesInputs ==
    {NoIds, NotAnIdsArray, IdsArray(<<>>), IdsArray(<<"a", "1">>),
     IdsArray(<<"1", "a">>), IdsArray(<<"a", "b">>)}

CallDeleteEntities(c) ==
    /\ call[c].status = "idle"
    /\ \E ids \in DeleteEntitiesInputs :
          Begin(c, "deleteEntities", [NoArgs EXCEPT !.ids = ids], deleteEntities(ids))
    /\ UNCHANGED <<self, store, searchable, uuidCount>>

NextBulk ==
    \E c \in Callers :
        \/ CallCreateEntities(c)
        \/ CallGetEntities(c)
        \/ CallDeleteEntities(c)
        \/ StoreAnswersBulk(c)
        \/ StoreAnswersMultiGet(c)
        \/ StoreFaults(c)
        \/ Deliver(c)
        \/ TransportFails(c)
        \/ Return(c)

SpecBulk == Init /\ [][NextBulk]_vars

(* Batches with entities that carry no id of their own: the constructor    *)
(* gives them one                                                          *)
WithoutId == Candidate(UNDEFINED, UNDEFINED, TRUE, "x")

CreateEntitiesWithoutIdInputs ==
    {Array(<<WithoutId>>), Array(<<Plain("a"), WithoutId>>)}

CallCreateEntitiesWithoutId(c) ==
    /\ call[c].status = "idle"
    /\ \E entities \in CreateEntitiesWithoutIdInputs :
          /\ uuidCount + UuidsNeeded(entities) <= MaxUuid
          /\ uuidCount' = uuidCount + UuidsNeeded(entities)
          /\ Begin(c, "createEntities", [NoArgs EXCEPT !.entities = entities],
                   createEntities(entities, uuidCount + 1))
    /\ UNCHANGED <<self, store, searchable>>

NextBulkIds ==
    \E c \in Callers :
        \/ CallCreateEntitiesWithoutId(c)
        \/ CallGetEntity(c)
        \/ StoreAnswers(c)
        \/ StoreAnswersBulk(c)
        \/ StoreFaults(c)
        \/ Deliver(c)
        \/ TransportFails(c)
        \/ Return(c)

SpecBulkIds == Init /\ [][NextBulkIds]_vars

----------------------------------------------------------------------------
(* Entities with and without an _entityType of their own, created and set *)

CategoryEntities == {Plain("a"), Typed("a")}

CallCreateEntityOfCategory(c) ==
    /\ call[c].status = "idle"
    /\ \E entity \in CategoryEntities :
          Begin(c, "createEntity", [NoArgs EXCEPT !.entity = entity],
                createEntity(entity, UNDEFINED, uuidCount + 1))
    /\ UNCHANGED <<self, store, searchable, uuidCount>>

SetEntityOfCategoryInputs ==
    {[NoParams EXCEPT !.defined = TRUE, !.entity = e, !.version = v] :
        e \in CategoryEntities, v \in {<<>>} \cup {<<n>> : n \in 1..MaxVersion}}

CallSetEntityOfCategory(c) ==
    /\ call[c].status = "idle"
    /\ \E params \in SetEntityOfCategoryInputs :
          Begin(c, "setEntity", [NoArgs EXCEPT !.params = params],
                setEntity(params, uuidCount + 1))
    /\ UNCHANGED <<self, store, searchable, uuidCount>>

NextCategory ==
    \E c \in Callers :
        \/ CallCreateEntityOfCategory(c)
        \/ CallSetEntityOfCategory(c)
        \/ StoreAnswers(c)
        \/ StoreFaults(c)
        \/ Deliver(c)
        \/ TransportFails(c)
        \/ Return(c)

SpecCategory == Init /\ [][NextCategory]_vars

----------------------------------------------------------------------------
(* Searches *)

ByValue == [NoSearchParams EXCEPT !.defined = TRUE, !.field = "name", !.value = "x"]

ByRange ==
    [NoSearchParams EXCEPT !.defined = TRUE, !.field = "updatedOn",
        !.range = [NoRange EXCEPT !.defined = TRUE, !.from = Timestamp(1),
                                  !.includeLower = "true"]]

FindByFieldInputs ==
    {NoSearchParams, ByValue, ByRange,
     [NoSearchParams EXCEPT !.defined = TRUE, !.field = "updatedOn"],
     [ByValue EXCEPT !.field = UNDEFINED],
     [ByRange EXCEPT !.value = "x"],
     [ByValue EXCEPT !.range = [NoRange EXCEPT !.defined = TRUE]],
     [ByValue EXCEPT !.sort = [NoSort EXCEPT !.defined = TRUE, !.field = "updatedOn",
                                             !.descending = "true"],
                     !.from = <<0>>, !.pageSize = <<1>>],
     [ByValue EXCEPT !.value = "false"],
     [ByValue EXCEPT !.sort = [NoSort EXCEPT !.defined = TRUE, !.field = "updatedOn"]],
     [ByRange EXCEPT !.range = [NoRange EXCEPT !.defined = TRUE,
                                   !.from = Timestamp(1), !.to = Timestamp(2),
                                   !.includeLower = "false", !.includeUpper = "false"]],
     [ByRange EXCEPT !.range = [NoRange EXCEPT !.defined = TRUE,
                                   !.from = NumberBound(1), !.to = NumberBound(2)]]}

CallFindByField(c) ==
    /\ call[c].status = "idle"
    /\ \E params \in FindByFieldInputs :
          Begin(c, "findByField", [NoArgs EXCEPT !.search = params], findByField(params))
    /\ UNCHANGED <<self, store, searchable, uuidCount>>

FindAllInputs ==
    {NoSearchParams,
     [NoSearchParams EXCEPT !.defined = TRUE, !.from = <<0>>, !.pageSize = <<1>>],
     [NoSearchParams EXCEPT !.defined = TRUE,
         !.sort = [NoSort EXCEPT !.defined = TRUE, !.field = "updatedOn"]],
     [NoSearchParams EXCEPT !.defined = TRUE,
         !.sort = [NoSort EXCEPT !.defined = TRUE, !.field = "updatedOn",
                                 !.descending = "false"],
         !.version = "true"],
     [NoSearchParams EXCEPT !.defined = TRUE, !.version = "1"]}

CallFindAll(c) ==
    /\ call[c].status = "idle"
    /\ \E params \in FindAllInputs :
          Begin(c, "findAll", [NoArgs EXCEPT !.search = params], findAll(params))
    /\ UNCHANGED <<self, store, searchable, uuidCount>>

(* seen: the documents of the request's type as searches saw them when the *)
(* store answered                                                          *)
StoreAnswersSearch(c) ==
    /\ call[c].phase = "requested"
    /\ call[c].req.api = "search"
    /\ \E order \in Orders(call[c].req, searchable) :
          call' = [call EXCEPT ![c].phase = "answered",
                      ![c].resp = SearchAnswer(call[c].req, searchable, order),
                      ![c].seen = View(call[c].req.type, searchable)]
    /\ UNCHANGED <<self, store, searchable, uuidCount>>

NextSearch ==
    \E c \in Callers :
        \/ CallFindByField(c)
        \/ CallFindAll(c)
        \/ StoreAnswersSearch(c)
        \/ StoreFaults(c)
        \/ Deliver(c)
        \/ TransportFails(c)
        \/ Return(c)

SpecSearch == Init /\ [][NextSearch]_vars

----------------------------------------------------------------------------
(* Searches over stored documents: entities are created, deleted and found *)

Named(id, name) == Candidate(id, UNDEFINED, TRUE, name)

UpdatedOn(e, t) == [e EXCEPT !.updatedOn = t]

HitsEntities ==
    {UpdatedOn(Named("a", "x"), 1), UpdatedOn(Named("b", "y"), 1),
     UpdatedOn(Named("b", "y"), 2)}

CallCreateEntityUpdatedOn(c) ==
    /\ call[c].status = "idle"
    /\ \E entity \in HitsEntities :
          Begin(c, "createEntity", [NoArgs EXCEPT !.entity = entity, !.refresh = "true"],
                createEntity(entity, "true", uuidCount + 1))
    /\ UNCHANGED <<self, store, searchable, uuidCount>>

CallDeleteEntityWithRefresh(c) ==
    /\ call[c].status = "idle"
    /\ \E refresh \in {UNDEFINED, "true"} :
          Begin(c, "deleteEntity", [NoArgs EXCEPT !.id = "a", !.refresh = refresh],
                deleteEntity("a", refresh))
    /\ UNCHANGED <<self, store, searchable, uuidCount>>

CallRefreshIndex(c) ==
    /\ call[c].status = "idle"
    /\ Begin(c, "refreshIndex", NoArgs, refreshIndex)
    /\ UNCHANGED <<self, store, searchable, uuidCount>>

PageSize == 1

FindAllPages ==
    {NoSearchParams}
        \cup {[NoSearchParams EXCEPT !.defined = TRUE, !.from = <<from>>,
                                     !.pageSize = <<PageSize>>] :
                 from \in {0, PageSize}}
        \cup {[NoSearchParams EXCEPT !.defined = TRUE,
                  !.sort = [NoSort EXCEPT !.defined = TRUE, !.field = "updatedOn",
                                          !.descending = "false"]]}

CallFindAllPages(c) ==
    /\ call[c].status = "idle"
    /\ \E params \in FindAllPages :
          Begin(c, "findAll", [NoArgs EXCEPT !.search = params], findAll(params))
    /\ UNCHANGED <<self, store, searchable, uuidCount>>

RangeOf(from, to, includeLower) ==
    [NoSearchParams EXCEPT !.defined = TRUE, !.field = "updatedOn",
        !.range = [NoRange EXCEPT !.defined = TRUE, !.from = from, !.to = to,
                                  !.includeLower = includeLower]]

FindByFieldOfDocuments ==
    {ByValue,
     RangeOf(Timestamp(2), NoBound, "true"),
     RangeOf(Timestamp(2), NoBound, UNDEFINED),
     RangeOf(Timestamp(2), Timestamp(2), UNDEFINED)}

CallFindByFieldOfDocuments(c) ==
    /\ call[c].status = "idle"
    /\ \E params \in FindByFieldOfDocuments :
          Begin(c, "findByField", [NoArgs EXCEPT !.search = params], findByField(params))
    /\ UNCHANGED <<self, store, searchable, uuidCount>>

(* _refresh: every document of the index becomes visible to searches *)
StoreAnswersRefresh(c) ==
    /\ call[c].phase = "requested"
    /\ call[c].req.api = "refresh"
    /\ searchable' = Refreshed(StoreTypes \X DocIds, store)
    /\ call' = [call EXCEPT ![c].phase = "answered",
                            ![c].resp = [NoResult EXCEPT !.kind = "ack", !.ok = TRUE]]
    /\ UNCHANGED <<self, store, uuidCount>>

(* The store refreshes on its own from time to time *)
StoreRefreshes ==
    /\ searchable # store
    /\ searchable' = Refreshed(StoreTypes \X DocIds, store)
    /\ UNCHANGED <<self, store, call, uuidCount>>

NextHits ==
    \/ StoreRefreshes
    \/ \E c \in Callers :
          \/ CallCreateEntityUpdatedOn(c)
          \/ CallDeleteEntityWithRefresh(c)
          \/ CallRefreshIndex(c)
          \/ CallFindAllPages(c)
          \/ CallFindByFieldOfDocuments(c)
          \/ StoreAnswers(c)
          \/ StoreAnswersRefresh(c)
          \/ StoreAnswersSearch(c)
          \/ Deliver(c)
          \/ Return(c)

SpecHits == Init /\ [][NextHits]_vars

----------------------------------------------------------------------------
(* Vocabulary of the properties *)

Delivered(c) == call[c].phase = "delivered"

(* The store took c's request and answered it itself: not a fault report,  *)
(* not a transport failure                                                 *)
StoreAnswered(c) ==
    /\ call[c].phase \in {"answered", "delivered"}
    /\ call[c].resp # FaultResult

Resolved(c) == call[c].status = "resolved" /\ call[c].value = call[c].resp

RejectedWith(c, code) == call[c].status = "rejected" /\ call[c].error.code = code

SuppliedVersion(c) == call[c].args.params.version

SameDocument(c, d) ==
    call[c].req.type = call[d].req.type /\ call[c].req.id = call[d].req.id

Concurrent(c, d) == c # d /\ (d \in call[c].peers \/ c \in call[d].peers)

(* c and d are concurrent setEntity calls for one document that supply the *)
(* same version, the version the document had while both were in flight    *)
RacingSetEntity(c, d) ==
    /\ Concurrent(c, d)
    /\ call[c].op = "setEntity" /\ call[d].op = "setEntity"
    /\ SameDocument(c, d)
    /\ SuppliedVersion(c) # <<>> /\ SuppliedVersion(c) = SuppliedVersion(d)
    /\ StoreAnswered(c) /\ StoreAnswered(d)
    /\ \E e \in {c, d} :
          call[e].pre.exists /\ call[e].pre.version = SuppliedVersion(e)[1]

Wins(w, l) ==
    /\ call[w].resp.ok
    /\ call[w].post.version = call[w].pre.version + 1
    /\ call[w].post.source = call[w].req.source
    /\ call[l].resp.error # UNDEFINED /\ call[l].resp.status = CONFLICT
    /\ call[l].pre = call[w].post
    /\ call[l].post = call[l].pre
    /\ Delivered(w) => Resolved(w)
    /\ Delivered(l) => RejectedWith(l, CONFLICT)

(* C1: of two concurrent setEntity calls for the same document that both   *)
(* supply its current version, exactly one succeeds and stores its entity; *)
(* the other is answered with a conflict, rejects with code 409 and        *)
(* changes nothing.                                                        *)
C1_ExactlyOneConcurrentWriteWins ==
    \A c, d \in Callers :
        RacingSetEntity(c, d) => (Wins(c, d) /\ ~Wins(d, c)) \/ (Wins(d, c) /\ ~Wins(c, d))

C1_Witness ==
    \E c, d \in Callers :
        /\ RacingSetEntity(c, d) /\ Delivered(c) /\ Delivered(d)
        /\ Resolved(c) /\ RejectedWith(d, CONFLICT)
        /\ store[<<call[c].req.type, call[c].req.id>>].source = call[c].req.source

(* A setEntity call with a well-formed entity whose request the store      *)
(* answered while the document existed with version v, supplying s         *)
SetEntityAt(c, s, v) ==
    /\ call[c].op = "setEntity"
    /\ StoreAnswered(c)
    /\ SuppliedVersion(c) = <<s>>
    /\ call[c].pre.exists /\ call[c].pre.version = v

ConflictUnchanged(c) ==
    /\ call[c].resp.error # UNDEFINED /\ call[c].resp.status = CONFLICT
    /\ call[c].post = call[c].pre
    /\ Delivered(c) => RejectedWith(c, CONFLICT)

(* C2 as stated: whenever setEntity is called for a document whose version *)
(* is v with version v-1, the promise rejects with code 409.               *)
C2_AsStated ==
    [][\A c \in Callers :
        LET params == call'[c].args.params
            key == <<self.type, params.entity.id>>
        IN  ( /\ call[c].status = "idle"
              /\ call'[c].op = "setEntity"
              /\ params.defined /\ params.entity.isObject /\ params.entity.valid
              /\ store[key].exists
              /\ params.version = <<store[key].version - 1>>
              /\ call'[c].status # "pending" )
            => call'[c].status = "rejected" /\ call'[c].error.code = CONFLICT]_vars

(* C2 (amended): a setEntity whose version s is stale but at least 1       *)
(* (1 <= s < v, v the current version) is answered with a conflict,        *)
(* rejects with code 409 and leaves document and version as they were; one *)
(* with s = v resolves and the stored version is then greater than v.      *)
C2_StaleVersionConflicts ==
    \A c \in Callers : \A v \in 1..MaxVersion :
        /\ \A s \in 1..(v - 1) : SetEntityAt(c, s, v) => ConflictUnchanged(c)
        /\ SetEntityAt(c, v, v) =>
              /\ call[c].resp.ok
              /\ call[c].post.exists /\ call[c].post.version > v
              /\ call[c].resp._version = call[c].post.version
              /\ Delivered(c) => Resolved(c)

C2_Witness ==
    \E c, d \in Callers :
        /\ SetEntityAt(c, 1, 2) /\ Delivered(c) /\ RejectedWith(c, CONFLICT)
        /\ SetEntityAt(d, 1, 1) /\ Delivered(d) /\ Resolved(d)

(* C3: a createEntity for an id with no stored document resolves; one for  *)
(* an id whose document exists is answered with a conflict, rejects with   *)
(* code 409 and leaves the stored document as it was.                      *)
C3_CreateExistingConflicts ==
    \A c \in Callers :
        (call[c].op = "createEntity" /\ StoreAnswered(c)) =>
            IF call[c].pre.exists
            THEN ConflictUnchanged(c)
            ELSE /\ call[c].resp.ok
                 /\ call[c].post.exists /\ call[c].post.source = call[c].req.source
                 /\ Delivered(c) => Resolved(c)

C3_Witness ==
    \E c, d \in Callers :
        /\ c # d /\ call[c].op = "createEntity" /\ call[d].op = "createEntity"
        /\ SameDocument(c, d) /\ StoreAnswered(c) /\ StoreAnswered(d)
        /\ Delivered(c) /\ Resolved(c)
        /\ Delivered(d) /\ RejectedWith(d, CONFLICT) /\ call[d].pre = call[c].post

(* c is a getEntity whose request the store answered *)
GetEntityAt(c) == call[c].op = "getEntity" /\ StoreAnswered(c)

(* C4: getEntity of an id whose document was stored by createEntity and    *)
(* not written or deleted since resolves with a representation whose       *)
(* source id is that id and whose version is the initial version.          *)
C4_GetAfterCreate ==
    \A c \in Callers :
        (GetEntityAt(c) /\ call[c].pre.exists /\ call[c].pre.via = "createEntity") =>
            /\ call[c].resp.exists = "true"
            /\ call[c].resp._source.id = call[c].args.id
            /\ call[c].resp._version = InitialVersion
            /\ Delivered(c) => Resolved(c)

C4_Witness ==
    \E c \in Callers :
        /\ GetEntityAt(c) /\ call[c].pre.via = "createEntity"
        /\ Delivered(c) /\ Resolved(c) /\ call[c].value._version = InitialVersion

(* C5: getEntity of an id with no stored document rejects with code 404    *)
(* and the store's answer as info; it does not resolve.                    *)
C5_GetMissingRejects404 ==
    \A c \in Callers :
        (GetEntityAt(c) /\ ~call[c].pre.exists) =>
            /\ call[c].status # "resolved"
            /\ Delivered(c) =>
                  /\ RejectedWith(c, NOT_FOUND)
                  /\ call[c].error.info = call[c].resp
                  /\ call[c].error.info._id = call[c].args.id

C5_Witness ==
    \E c \in Callers :
        GetEntityAt(c) /\ ~call[c].pre.exists /\ Delivered(c) /\ RejectedWith(c, NOT_FOUND)

(* c is a setEntity without a version, with a well-formed entity, whose    *)
(* request the store answered                                              *)
UpsertAt(c) ==
    call[c].op = "setEntity" /\ SuppliedVersion(c) = <<>> /\ StoreAnswered(c)

(* C6: setEntity without a version is never answered with a conflict: it   *)
(* creates the document when absent and replaces it, whatever its version, *)
(* when present, and resolves.                                             *)
C6_SetWithoutVersionUpserts ==
    \A c \in Callers :
        UpsertAt(c) =>
            /\ call[c].resp.ok /\ call[c].resp.error = UNDEFINED
            /\ call[c].post.exists /\ call[c].post.source = call[c].req.source
            /\ call[c].post.version =
                  IF call[c].pre.exists THEN call[c].pre.version + 1 ELSE InitialVersion
            /\ Delivered(c) => Resolved(c)

C6_Witness ==
    \E c, d \in Callers :
        /\ UpsertAt(c) /\ ~call[c].pre.exists /\ Delivered(c) /\ Resolved(c)
        /\ UpsertAt(d) /\ call[d].pre.exists /\ call[d].post.version > InitialVersion
        /\ Delivered(d) /\ Resolved(d)

(* The messages of the errors an operation raises itself, before it has    *)
(* anything to ask the store                                               *)
ValidationMessages ==
    {"entity is required", "refresh must be a Boolean", "validation failed",
     "id is required and must be a String", "type is required",
     "entities is required to be an Array", EntityError.message,
     "ids is required to be an Array", IdsError.message}

(* C7: a call that fails argument validation, entity construction or the   *)
(* resolution of the document type hands no request to the client.         *)
C7_FailedValidationIssuesNoRequest ==
    \A c \in Callers :
        (call[c].status = "rejected" /\ call[c].error.message \in ValidationMessages)
            => call[c].nreq = 0

(* C8: whenever the entity constructor rejects a candidate, in createEntity, *)
(* in setEntity or for an element of createEntities, the promise rejects   *)
(* with code INVALID_OBJ_SCHEMA.                                           *)
ConstructorRejects(c) ==
    \/ /\ call[c].op = "createEntity"
       /\ call[c].args.entity.isObject /\ isUndefined(call[c].args.refresh)
       /\ EntityThrows(call[c].args.entity)
    \/ /\ call[c].op = "setEntity"
       /\ ~updateEntityParamsInvalid(call[c].args.params)
       /\ EntityThrows(call[c].args.params.entity)
    \/ /\ call[c].op = "createEntities"
       /\ call[c].args.entities.isArray
       /\ \E i \in 1..Len(call[c].args.entities.items) :
             EntityThrows(call[c].args.entities.items[i])

C8_ConstructorFailureIsSchemaError ==
    \A c \in Callers : ConstructorRejects(c) => RejectedWith(c, INVALID_OBJ_SCHEMA)

(* C9: an answer of the store that carries an error makes the operation's  *)
(* promise reject with the store's error as message and the store's status *)
(* as code, for every operation.                                           *)
C9_StoreErrorRejects ==
    \A c \in Callers :
        (Delivered(c) /\ ~isUndefined(call[c].resp.error)) =>
            /\ call[c].status = "rejected"
            /\ call[c].error.message = call[c].resp.error
            /\ call[c].error.code = call[c].resp.status

(* C10: a getEntity answer without a boolean exists flag that carries an   *)
(* error with status s makes the promise reject with code s.               *)
C10_GetEntityErrorCodeIsStatus ==
    \A c \in Callers :
        ( /\ call[c].op = "getEntity" /\ Delivered(c)
          /\ ~isBoolean(call[c].resp.exists)
          /\ ~isUndefined(call[c].resp.error) )
            => RejectedWith(c, call[c].resp.status)

----------------------------------------------------------------------------
(* Batches *)

EmptyBatch(c) ==
    \/ call[c].op = "createEntities" /\ call[c].args.entities = Array(<<>>)
    \/ call[c].op = "deleteEntities" /\ call[c].args.ids = IdsArray(<<>>)

(* C11: createEntities([]) and deleteEntities([]) resolve with undefined   *)
(* (no value), hand no request to the client and leave the store as it is. *)
C11_EmptyBatchIsNoOp ==
    /\ [](\A c \in Callers :
            EmptyBatch(c) =>
                /\ call[c].status = "resolved" /\ call[c].value = NoResult
                /\ call[c].nreq = 0 /\ call[c].req = NoRequest
                /\ call[c].phase = "none")
    /\ [][\A c \in Callers :
            (call[c].status = "idle" /\ EmptyBatch(c)') => store' = store]_vars

C11_Witness ==
    \E c, d \in Callers :
        /\ call[c].op = "createEntities" /\ EmptyBatch(c) /\ call[c].status = "resolved"
        /\ call[d].op = "deleteEntities" /\ EmptyBatch(d) /\ call[d].status = "resolved"
        /\ \E key \in DOMAIN store : store[key].exists

(* ids as the claim lists them: no argument, not an array, or an array     *)
(* with a non-string element at some position                              *)
BadIds(ids) ==
    \/ ids = NoIds
    \/ ids = NotAnIdsArray
    \/ ids.isArray /\ \E i \in 1..Len(ids.items) : ids.items[i] = "1"

(* C12: getEntities and deleteEntities given no ids, a non-array, or an    *)
(* array with a non-string element reject with a validation error and hand *)
(* no request to the client.                                               *)
C12_BadIdsRejected ==
    \A c \in Callers :
        (call[c].op \in {"getEntities", "deleteEntities"} /\ BadIds(call[c].args.ids)) =>
            /\ call[c].status = "rejected"
            /\ call[c].error.message \in ValidationMessages
            /\ call[c].error.code = UNDEFINED
            /\ call[c].nreq = 0 /\ call[c].req = NoRequest

C12_Witness ==
    \E c, d \in Callers :
        /\ call[c].op = "getEntities" /\ call[c].args.ids = IdsArray(<<"a", "1">>)
        /\ call[c].status = "rejected"
        /\ call[d].op = "deleteEntities" /\ call[d].args.ids = IdsArray(<<"a", "1">>)
        /\ call[d].status = "rejected"

(* c is a createEntities of one or more entities the constructor accepts,  *)
(* or a deleteEntities of one or more strings                              *)
ValidBatch(c) ==
    \/ /\ call[c].op = "createEntities"
       /\ call[c].args.entities.isArray /\ Len(call[c].args.entities.items) >= 1
       /\ \A i \in 1..Len(call[c].args.entities.items) :
             call[c].args.entities.items[i].isObject
                 /\ call[c].args.entities.items[i].valid
    \/ /\ call[c].op = "deleteEntities"
       /\ call[c].args.ids.isArray /\ Len(call[c].args.ids.items) >= 1
       /\ \A i \in 1..Len(call[c].args.ids.items) : call[c].args.ids.items[i] # "1"

Submitted(c) ==
    IF call[c].op = "createEntities" THEN call[c].args.entities.items
    ELSE call[c].args.ids.items

BulkAnswered(c) ==
    /\ call[c].req.api = "bulk"
    /\ call[c].phase \in {"answered", "delivered"}
    /\ call[c].resp.kind = "bulk"

(* C14: a bulk response is handed to the caller as it is, whatever its     *)
(* items report: the promise resolves with one outcome per submitted item  *)
(* in submission order; an item reported ok has taken effect in the store  *)
(* and an item reported failed has left its document as it was.            *)
C14_PartialFailureResolves ==
    /\ [](\A c \in Callers :
            (BulkAnswered(c) /\ Delivered(c)) => Resolved(c))
    /\ [][\A c \in Callers :
            (call[c].phase = "requested" /\ BulkAnswered(c)') =>
                LET items == call'[c].resp.items
                    N == Len(Submitted(c))
                IN  /\ Len(items) = N
                    /\ \A i \in 1..N :
                          LET id == IF call[c].op = "createEntities"
                                    THEN Submitted(c)[i].id ELSE Submitted(c)[i]
                              key == <<self.type, items[i]._id>>
                          IN  /\ ~isUndefined(id) => items[i]._id = id
                              /\ items[i].action =
                                    IF call[c].op = "createEntities" THEN "index"
                                    ELSE "delete"
                              /\ IF items[i].ok
                                 THEN IF call[c].op = "createEntities"
                                      THEN /\ store'[key].exists
                                           /\ store'[key].source.data = Submitted(c)[i].data
                                           /\ store'[key].version = items[i]._version
                                      ELSE ~store'[key].exists
                                 ELSE ~isUndefined(id) => store'[key] = store[key]]_vars

PartlyFailed(c) ==
    /\ BulkAnswered(c) /\ Delivered(c) /\ Resolved(c)
    /\ \E i, j \in 1..Len(call[c].resp.items) :
          call[c].resp.items[i].ok /\ ~call[c].resp.items[j].ok

C14_Witness ==
    \E c, d \in Callers :
        /\ call[c].op = "createEntities" /\ PartlyFailed(c)
        /\ call[d].op = "deleteEntities" /\ PartlyFailed(d)

(* c is a getEntities whose request the store answered *)
GetEntitiesAt(c) ==
    /\ call[c].op = "getEntities"
    /\ call[c].phase \in {"answered", "delivered"}
    /\ call[c].resp.kind = "mget"

(* C15: the documents a createEntities stored are stored under the         *)
(* database's type and their own ids, and a getEntities of N ids resolves  *)
(* with N documents, one per id in order, each reported as found when its  *)
(* document was stored by createEntities and not deleted since.            *)
C15_GetEntitiesAfterCreateEntities ==
    /\ [](\A c \in Callers :
            GetEntitiesAt(c) =>
                LET ids == call[c].args.ids.items
                    docs == call[c].resp.docs
                IN  /\ call[c].req.index = self.index
                    /\ call[c].req.type = self.type
                    /\ Len(docs) = Len(ids)
                    /\ \A i \in 1..Len(ids) :
                          /\ docs[i]._id = ids[i]
                          /\ docs[i]._type = self.type
                          /\ (call[c].seen[i].exists
                                  /\ call[c].seen[i].via = "createEntities")
                                => docs[i].exists = "true"
                    /\ Delivered(c) => Resolved(c))
    /\ [][\A c \in Callers :
            ( /\ call[c].op = "createEntities"
              /\ call[c].phase = "requested" /\ BulkAnswered(c)' ) =>
                \A i \in 1..Len(Submitted(c)) :
                    LET id == Submitted(c)[i].id
                    IN  (~isUndefined(id) /\ call'[c].resp.items[i].ok) =>
                            /\ store'[<<self.type, id>>].exists
                            /\ store'[<<self.type, id>>].via = "createEntities"]_vars

C15_Witness ==
    \E c \in Callers :
        /\ GetEntitiesAt(c) /\ call[c].args.ids = IdsArray(<<"a", "b">>)
        /\ \A i \in 1..2 : call[c].seen[i].via = "createEntities"
        /\ Delivered(c) /\ Resolved(c)
        /\ Len(call[c].value.docs) = 2
        /\ \A i \in 1..2 : call[c].value.docs[i].exists = "true"

----------------------------------------------------------------------------
(* Promises *)

Settled(c) == call[c].status \in {"resolved", "rejected"}

Outcome(c) == <<call[c].status, call[c].value, call[c].error>>

(* C16: the promise of every call is settled exactly once: a pending       *)
(* promise is eventually resolved or rejected once the client has invoked  *)
(* a callback of the request, it is never pending after that, and a        *)
(* settled promise keeps its outcome whatever callback arrives later.      *)
C16_SettledExactlyOnce ==
    /\ \A c \in Callers : (call[c].status = "pending") ~> Settled(c)
    /\ [](\A c \in Callers :
            call[c].phase \in {"none", "delivered", "failed"} =>
                call[c].status # "pending")
    /\ [][\A c \in Callers :
            Settled(c) => (call'[c] = Idle \/ Outcome(c)' = Outcome(c))]_vars

(* a promise rejected by the operation itself whose request was answered   *)
(* with success afterwards                                                 *)
C16_Witness ==
    \E c \in Callers :
        /\ call[c].status = "rejected" /\ call[c].error.message = "type is required"
        /\ Delivered(c) /\ call[c].resp.ok

----------------------------------------------------------------------------
(* Requests *)

(* the client has invoked a callback of c's request, or holds its answer *)
Answered(c) == call[c].phase \in {"answered", "delivered", "failed"}

(* C17: a call hands at most one request to the client and never hands it  *)
(* over again: once the request was answered (a conflict, a 404, any other *)
(* store error) or the transport failed, the call sends nothing more.      *)
C17_NoRetry ==
    /\ [](\A c \in Callers : call[c].nreq <= 1)
    /\ [][\A c \in Callers :
            Answered(c) =>
                \/ call'[c] = Idle
                \/ /\ Answered(c)'
                   /\ call'[c].nreq = call[c].nreq
                   /\ call'[c].req = call[c].req]_vars

C17_Witness ==
    \E c, d \in Callers :
        /\ call[c].op = "setEntity" /\ Delivered(c) /\ RejectedWith(c, CONFLICT)
        /\ call[c].nreq = 1
        /\ call[d].phase = "failed" /\ call[d].status = "rejected" /\ call[d].nreq = 1

(* C19: getEntity and deleteEntity without an id or with an id that is not *)
(* a string, and deleteEntity and createEntity with a refresh flag that is *)
(* not a boolean, reject without handing a request to the client.          *)
C19_BadIdOrRefreshRejected ==
    \A c \in Callers :
        ( \/ /\ call[c].op \in {"getEntity", "deleteEntity"}
             /\ call[c].args.id \in {UNDEFINED, "1"}
          \/ /\ call[c].op \in {"deleteEntity", "createEntity"}
             /\ call[c].args.refresh \notin {UNDEFINED, "true", "false"} )
            => /\ call[c].status = "rejected"
               /\ call[c].error.message \in ValidationMessages
               /\ call[c].nreq = 0 /\ call[c].req = NoRequest

C19_Witness ==
    \E c, d \in Callers :
        /\ call[c].op = "deleteEntity" /\ call[c].args.id = "a"
        /\ call[c].args.refresh = "'true'" /\ call[c].status = "rejected"
        /\ call[d].op = "getEntity" /\ call[d].args.id = "1"
        /\ call[d].status = "rejected"

----------------------------------------------------------------------------
(* Document categories *)

(* the entity a createEntity or setEntity call was given *)
EntityOf(c) ==
    IF call[c].op = "setEntity" THEN call[c].args.params.entity
    ELSE call[c].args.entity

(* the category the entity belongs to: its own _entityType, or else the    *)
(* database's type                                                         *)
Category(e) == IF isUndefined(e._entityType) THEN self.type ELSE e._entityType

(* C18: createEntity and setEntity address the category of the entity, its *)
(* _entityType when it has one and the database's type otherwise, so that  *)
(* both address the same document for the same entity.                     *)
C18_SameCategory ==
    \A c \in Callers :
        (call[c].op \in {"createEntity", "setEntity"} /\ call[c].nreq = 1) =>
            /\ call[c].req.type = Category(EntityOf(c))
            /\ call[c].req.id = EntityOf(c).id

----------------------------------------------------------------------------
(* Searches *)

(* C20: findByField given both a value and a range rejects with a          *)
(* validation error and hands no search request to the client.             *)
C20_ValueAndRangeRejected ==
    \A c \in Callers :
        ( /\ call[c].op = "findByField"
          /\ call[c].args.search.value # UNDEFINED
          /\ call[c].args.search.range.defined ) =>
            /\ call[c].status = "rejected"
            /\ call[c].error.message \in ValidationMessages
            /\ call[c].nreq = 0 /\ call[c].req = NoRequest

C20_Witness ==
    \E c, d \in Callers :
        /\ call[c].op = "findByField"
        /\ call[c].args.search.value = "x"
        /\ call[c].args.search.range.from = Timestamp(1)
        /\ call[c].status = "rejected"
        /\ call[d].op = "findByField" /\ call[d].args.search = ByValue
        /\ Delivered(d) /\ Resolved(d)

(* c is a findAll or findByField whose params passed validation, so that a *)
(* search request was handed to the client                                 *)
Searching(c) == call[c].op \in {"findAll", "findByField"} /\ call[c].nreq = 1

(* C21: a findAll or findByField whose params carry sort.field without     *)
(* sort.descending sorts its search request in descending order.           *)
C21_OmittedDescendingIsDescending ==
    \A c \in Callers :
        ( /\ Searching(c)
          /\ call[c].args.search.sort.defined
          /\ isUndefined(call[c].args.search.sort.descending) ) =>
            /\ call[c].req.search.sortField = call[c].args.search.sort.field
            /\ call[c].req.search.sortOrder = "desc"

(* C23: a findByField request carries exactly one filter and no query: a   *)
(* term filter on field with the value when a value is given, whatever     *)
(* that value (false included); otherwise a range filter on field with     *)
(* precisely the bounds and inclusion flags of range, which is the         *)
(* unbounded range filter when no range is given.                          *)
C23_ExactlyOneFilter ==
    \A c \in Callers :
        (call[c].op = "findByField" /\ call[c].nreq = 1) =>
            LET params == call[c].args.search
                filter == call[c].req.search.filter
            IN  /\ call[c].req.api = "search"
                /\ isUndefined(call[c].req.search.query)
                /\ filter.field = params.field
                /\ IF ~isUndefined(params.value)
                   THEN /\ filter.kind = "term"
                        /\ filter.value = params.value
                        /\ ~filter.from.defined /\ ~filter.to.defined
                   ELSE /\ filter.kind = "range"
                        /\ isUndefined(filter.value)
                        /\ filter.from = params.range.from
                        /\ filter.to = params.range.to
                        /\ filter.includeLower = params.range.includeLower
                        /\ filter.includeUpper = params.range.includeUpper
                        /\ ~params.range.defined =>
                              /\ ~filter.from.defined /\ ~filter.to.defined
                              /\ isUndefined(filter.includeLower)
                              /\ isUndefined(filter.includeUpper)

C23_Witness ==
    \E c, d \in Callers :
        /\ call[c].op = "findByField" /\ call[c].phase = "requested"
        /\ call[c].args.search.value = "false"
        /\ call[c].req.search.filter.kind = "term"
        /\ call[d].op = "findByField" /\ call[d].phase = "requested"
        /\ call[d].args.search.range.to = Timestamp(2)
        /\ call[d].req.search.filter.includeUpper = "false"

(* params of findByField that name a field and a range, no value, and are  *)
(* well-formed in everything but, possibly, the type of the bounds         *)
RangeParams(params) ==
    /\ params.defined /\ isString(params.field) /\ isUndefined(params.value)
    /\ ~requestSettingsInvalid(params)
    /\ params.range.defined
    /\ isUndefined(params.range.includeLower) \/ isBoolean(params.range.includeLower)
    /\ isUndefined(params.range.includeUpper) \/ isBoolean(params.range.includeUpper)

(* C24: a findByField with a range passes validation and hands over a      *)
(* search request whose range filter carries the bounds, whether the       *)
(* bounds are timestamps or numbers.                                       *)
C24_NumbersAndTimestampsAccepted ==
    \A c \in Callers :
        (call[c].op = "findByField" /\ RangeParams(call[c].args.search)) =>
            /\ call[c].nreq = 1
            /\ call[c].req.search.filter.kind = "range"
            /\ call[c].req.search.filter.from = call[c].args.search.range.from
            /\ call[c].req.search.filter.to = call[c].args.search.range.to

----------------------------------------------------------------------------
(* Hits *)

(* the store answered c's search with hits *)
HitsAnswered(c) ==
    /\ call[c].req.api = "search"
    /\ call[c].phase \in {"answered", "delivered"}
    /\ call[c].resp.kind = "hits"

HitIds(c) == [i \in 1..Len(call[c].resp.hits) |-> call[c].resp.hits[i]._id]

(* the hits of c are in the order dir ("desc" or "asc") of updatedOn *)
InUpdatedOnOrder(c, dir) ==
    \A i, j \in 1..Len(call[c].resp.hits) :
        i < j => LET u == call[c].resp.hits[i]._source.updatedOn
                     v == call[c].resp.hits[j]._source.updatedOn
                 IN  IF dir = "desc" THEN u >= v ELSE u <= v

VisibleTo(c) == {i \in 1..Len(call[c].seen) : call[c].seen[i].exists}

VisibleFrom(c, bound) ==
    {DocIdSeq[i] : i \in {j \in VisibleTo(c) :
                            call[c].seen[j].source.updatedOn >= bound}}

VisibleAt(c, bound) ==
    {DocIdSeq[i] : i \in {j \in VisibleTo(c) :
                            call[c].seen[j].source.updatedOn = bound}}

(* the hits of c are exactly the documents of ids: each once, all of them  *)
(* counted, as many returned as the default size allows                    *)
HitsAre(c, ids) ==
    /\ call[c].resp.total = Cardinality(ids)
    /\ {HitIds(c)[i] : i \in 1..Len(HitIds(c))} \subseteq ids
    /\ \A i, j \in 1..Len(HitIds(c)) : i # j => HitIds(c)[i] # HitIds(c)[j]
    /\ Len(HitIds(c)) = IF Cardinality(ids) < DefaultSize THEN Cardinality(ids)
                        ELSE DefaultSize

FirstAndSecondPage(c, d) ==
    /\ c # d
    /\ call[c].op = "findAll" /\ HitsAnswered(c)
    /\ call[d].op = "findAll" /\ HitsAnswered(d)
    /\ call[c].args.search.from = <<0>> /\ call[c].args.search.pageSize = <<PageSize>>
    /\ call[d].args.search.from = <<PageSize>>
    /\ call[d].args.search.pageSize = <<PageSize>>
    /\ call[c].seen = call[d].seen

(* C26: the pages of a result set, requested in any order or concurrently  *)
(* while nothing is written, are pairwise disjoint, hold PageSize          *)
(* documents each while documents remain, and one after the other are the  *)
(* result set in sort order, also when documents share the sort value.     *)
C26_PagesPartition ==
    \A c, d \in Callers :
        FirstAndSecondPage(c, d) =>
            LET M == Cardinality(VisibleTo(c))
                pages == HitIds(c) \o HitIds(d)
            IN  /\ call[c].resp.total = M /\ call[d].resp.total = M
                /\ Len(HitIds(c)) = IF M < PageSize THEN M ELSE PageSize
                /\ Len(HitIds(d)) = IF M < 2 * PageSize
                                    THEN (IF M < PageSize THEN 0 ELSE M - PageSize)
                                    ELSE PageSize
                /\ \A i, j \in 1..Len(pages) : i # j => pages[i] # pages[j]
                /\ \A i \in 1..Len(HitIds(c)) : \A j \in 1..Len(HitIds(d)) :
                      call[c].resp.hits[i]._source.updatedOn
                          >= call[d].resp.hits[j]._source.updatedOn

(* d is a findByField on the name only entity a has, called after the     *)
(* store had answered c's request, c having made no call since             *)
FindsByNameAfter(d, c) ==
    /\ call[d].op = "findByField" /\ call[d].args.search = ByValue
    /\ HitsAnswered(d)
    /\ c \in call[d].after
    /\ StoreAnswered(c)

(* the store answers c's request in this step *)
StoreAnswersTo(c) ==
    /\ call[c].phase = "requested" /\ call'[c].phase = "answered"
    /\ call'[c].resp # FaultResult

(* the document is deleted and searches do not see it *)
Gone(key) == ~store[key].exists /\ ~searchable[key].exists

(* C27: when the store has answered a deleteEntity(id, true), or a         *)
(* refreshIndex after the entity's deletion, the entity is gone from what  *)
(* searches see; it stays so until it is created again; and while it is,   *)
(* every findByField on an attribute only that entity has finds nothing.   *)
C27_DeletedAndRefreshedIsNotFound ==
    [][\A c \in Callers :
          /\ ( /\ StoreAnswersTo(c) /\ call[c].op = "deleteEntity"
               /\ call[c].args.refresh = "true" ) =>
                 Gone(<<self.type, call[c].args.id>>)'
          /\ (StoreAnswersTo(c) /\ call[c].op = "refreshIndex") =>
                 \A id \in DocIds :
                     ~store[<<self.type, id>>].exists => Gone(<<self.type, id>>)'
          /\ \A id \in DocIds :
                Gone(<<self.type, id>>) =>
                    Gone(<<self.type, id>>)' \/ store'[<<self.type, id>>].exists
          /\ ( /\ StoreAnswersTo(c) /\ call[c].op = "findByField"
               /\ call[c].args.search = ByValue
               /\ Gone(<<self.type, "a">>) ) =>
                 /\ call'[c].resp.total = 0
                 /\ call'[c].resp.hits = <<>>]_vars

(* the entity existed when it was deleted with a refresh, and the search   *)
(* called after the deletion resolved without hits                         *)
C27_Witness ==
    \E c, d \in Callers :
        /\ FindsByNameAfter(d, c)
        /\ call[c].op = "deleteEntity" /\ call[c].args.refresh = "true"
        /\ call[c].pre.exists /\ call[c].pre.source.data = "x"
        /\ Delivered(c) /\ Resolved(c)
        /\ Gone(<<self.type, "a">>)
        /\ Delivered(d) /\ Resolved(d) /\ call[d].value.total = 0

----------------------------------------------------------------------------
(* The handle *)

(* C28: the handle's index and type are the lower-cased options, its       *)
(* entity constructor and client are the ones of the options, no call or   *)
(* answer, in any interleaving, changes any of them, and every request is  *)
(* addressed to that lower-cased index.                                    *)
C28_HandleIsImmutable ==
    /\ self = [Entity |-> "Entity", ejs |-> "ejs",
               index |-> "entitydatabasespec", type |-> "entitydatabasetestdoc"]
    /\ \A c \in Callers :
          call[c].req.api # "none" => call[c].req.index = "entitydatabasespec"

(* both callers have requests of different operations under way *)
C28_Witness ==
    \E c, d \in Callers :
        /\ call[c].op = "setEntity" /\ Delivered(c) /\ Resolved(c)
        /\ call[d].op = "deleteEntity" /\ call[d].phase = "requested"
        /\ c \in call[d].peers
        /\ call[c].req.index = "entitydatabasespec"
        /\ call[d].req.index = "entitydatabasespec"

----------------------------------------------------------------------------
(* Batches of entities without ids, and of entities that exist already *)

(* C29: in the payload of every createEntities request, the _id of each    *)
(* index header is the id of the entity body on the line after it, also    *)
(* for an element that came without an id and got one from the entity      *)
(* constructor.                                                            *)
C29_HeaderIdIsBodyId ==
    \A c \in Callers :
        (call[c].op = "createEntities" /\ call[c].nreq = 1) =>
            LET payload == call[c].req.payload
            IN  \A i \in 1..Len(payload) :
                    payload[i].line = "index" =>
                        /\ i < Len(payload)
                        /\ payload[i + 1].line = "source"
                        /\ payload[i]._id = payload[i + 1].source.id

(* C30: a createEntities never overwrites: when the store answers it, the  *)
(* document of every item whose id existed already is as it was, version   *)
(* included, and that item is reported as failed.                          *)
C30_CreateEntitiesNeverOverwrites ==
    [][\A c \in Callers :
          ( /\ call[c].op = "createEntities"
            /\ call[c].phase = "requested" /\ call'[c].phase = "answered"
            /\ call'[c].resp.kind = "bulk" ) =>
              \A i \in 1..Len(call'[c].resp.items) :
                  LET item == call'[c].resp.items[i]
                      key == <<self.type, item._id>>
                  IN  (~isUndefined(item._id) /\ store[key].exists) =>
                          /\ store'[key] = store[key]
                          /\ ~item.ok]_vars

====
